---------------------------- MODULE Spec2Model ----------------------------
(***************************************************************************)
(* A model of src/ffmpeg.js of lossless-cut: the multi-segment coordinator *)
(* (cutMultiple / cut / handleProgress), the cut planner (the argument     *)
(* vector built by cut), the keyframe resolver (getNextPrevKeyframe), the  *)
(* merge of segments (autoMergeSegments / mergeFiles) and the format       *)
(* negotiator (getFormat).                                                 *)
(*                                                                         *)
(* Six specifications share the module:                                    *)
(*   Spec          one batch of cutMultiple, from the call to its return   *)
(*                 or its rejection;                                       *)
(*   SpecLate      the same batch when lines of a settled process may      *)
(*                 still reach its line handler;                           *)
(*   SpecCut       the argument vector cut() plans, over its inputs;       *)
(*   SpecKeyframe  getNextPrevKeyframe over frame timelines and cut times; *)
(*   SpecMerge     autoMergeSegments: the merge, then the trash calls;     *)
(*   SpecFormat    getFormat over probed candidates and content types.     *)
(*                                                                         *)
(* Times in Spec and SpecCut are whole seconds.  Times in SpecKeyframe are *)
(* ticks of 1/400 s, so that the tolerance sigma = 0.01 s is 4 ticks and   *)
(* several distinct frames fit inside it.  Progress fractions are exact    *)
(* rationals <<n, d>> in lowest terms, d > 0.                              *)
(***************************************************************************)
EXTENDS Integers, Sequences, FiniteSets, TLC

\* ------------------------------------------------------------------ bounds
MaxSegments == 2   \* segments in one batch
MaxTime == 2       \* cut points and source duration lie in 0..MaxTime
MaxElapsed == 2    \* the seconds field of a progress line lies in 0..MaxElapsed
MaxFiles == 2      \* stream selections (input files) of one cut
MaxFrames == 4     \* frames of a timeline
MaxFrameTime == 5  \* frame times and cut times lie in 0..MaxFrameTime ticks
MaxPaths == 6      \* segment files handed to autoMergeSegments
MaxCandidates == 2 \* candidates in a format_name (besides the QuickTime list)

VARIABLES
  \* ---- cutMultiple (Spec)
  params,            \* the arguments of cutMultiple other than segments
  segmentsUnsorted,  \* the segments as passed in
  platform,          \* os.platform()
  segments,          \* sortBy(segmentsUnsorted, 'cutFrom')
  singleProgresses,  \* id -> last fraction stored by onSingleProgress
  outFiles,          \* the output paths collected so far
  i,                 \* the loop's shared counter
  pc,                \* where cutMultiple stands
  proc,              \* per segment: its transcode process
  transfer,          \* per segment: its transferTimestamps call
  reported,          \* per segment: the last fraction its own cut reported
  lastProgress,      \* the last value passed to the caller's onProgress
  ffmpegCommandLog,  \* what appendFfmpegCommandLog received
  cutOrder,          \* the segments cut() was called for, in call order
  lastStore,         \* the last store into singleProgresses: <<segment, id>>
  lineOutcome,       \* what was thrown in the line handler's last run, and
                     \* how the run ended
  \* ---- cut planner (SpecCut)
  cutIn,             \* the arguments of one cut() call
  ffmpegArgs,        \* the argument vector it built
  \* ---- keyframe resolver (SpecKeyframe)
  frames,            \* the timeline readFrames returned
  cutTime,           \* the cut point to resolve
  resolved,          \* what getNextPrevKeyframe did
  \* ---- autoMergeSegments (SpecMerge)
  mergeIn,           \* the arguments of autoMergeSegments and the clock
  mergeOs,           \* os.platform()
  mergePc,           \* where autoMergeSegments stands
  mergeProc,         \* where mergeFiles and its process stand
  mergeRun,          \* what the merge process was started with
  trashed,           \* per segment path (by position): its trash() call
  \* ---- getFormat (SpecFormat)
  probeIn,           \* what ffprobe and the magic bytes say about the file
  formatOut          \* what getFormat did

coordVars == <<params, segmentsUnsorted, platform, segments, singleProgresses, outFiles, i, pc,
               proc, transfer, reported, lastProgress, ffmpegCommandLog,
               cutOrder, lastStore, lineOutcome>>
planVars == <<cutIn, ffmpegArgs>>
frameVars == <<frames, cutTime, resolved>>
mergeVars == <<mergeIn, mergeOs, mergePc, mergeProc, mergeRun, trashed>>
formatVars == <<probeIn, formatOut>>
vars == <<coordVars, planVars, frameVars, mergeVars, formatVars>>

\* ------------------------------------------------------------- arithmetic
Abs(n) == IF n < 0 THEN -n ELSE n

RECURSIVE GCD(_, _)
GCD(a, b) == IF b = 0 THEN a ELSE GCD(b, a % b)

\* n / d for d > 0, in lowest terms
Rat(n, d) == LET g == GCD(Abs(n), d) IN <<n \div g, d \div g>>

RatAdd(x, y) == Rat(x[1] * y[2] + y[1] * x[2], x[2] * y[2])
RatDivInt(x, k) == Rat(x[1], x[2] * k)
RatLeq(x, y) == x[1] * y[2] <= y[1] * x[2]
Zero == Rat(0, 1)
One == Rat(1, 1)

\* ------------------------------------------------------------ small helpers
\* the elements of a sequence
Range(s) == {s[j] : j \in 1..Len(s)}

\* lodash flatMap(s, F), F a function on the elements of s
RECURSIVE flatMap(_, _)
flatMap(s, F) == IF s = <<>> THEN <<>> ELSE F[Head(s)] \o flatMap(Tail(s), F)

\* the positions of s holding x
IndexesOf(s, x) == {j \in 1..Len(s) : s[j] = x}

\* lodash sortBy(arr, 'cutFrom'): a stable sort, ascending
RECURSIVE InsertByCutFrom(_, _)
InsertByCutFrom(seg, sorted) ==
  IF sorted = <<>> THEN <<seg>>
  ELSE IF seg.cutFrom < Head(sorted).cutFrom THEN <<seg>> \o sorted
  ELSE <<Head(sorted)>> \o InsertByCutFrom(seg, Tail(sorted))

\* the array left in the order passed in
sortByNothing(s) == s

RECURSIVE SortByCutFrom(_)
SortByCutFrom(s) ==
  IF s = <<>> THEN <<>>
  ELSE InsertByCutFrom(s[Len(s)], SortByCutFrom(SubSeq(s, 1, Len(s) - 1)))


\* ------------------------------------------------------------ cut planner
\* getFfCommandLine: the command followed by its arguments.  The single
\* quotes put around an argument that holds a character outside
\* [0-9a-zA-Z-_] change no argument's text and are not represented.
getFfCommandLine(cmd, args) == <<cmd>> \o args

SupportedPlatforms == {"darwin", "win32", "linux"}

\* getPath throws on a platform without a bundled binary
getPathThrows(os) == os \notin SupportedPlatforms

isCuttingStartGe(cutFrom) == cutFrom >= 0

isCuttingStart(cutFrom) == cutFrom > 0

isCuttingEnd(cutTo, duration) == cutTo < duration

getExtensionForFormat(format) ==
  CASE format = "matroska" -> "mkv"
    [] format = "ipod" -> "m4a"
    [] OTHER -> format

\* Number.prototype.toFixed(5) of a whole number of seconds
ToFixed5(n) == ToString(n) \o ".00000"

cutFromArgs(c) ==
  IF isCuttingStart(c.cutFrom) THEN <<"-ss", ToFixed5(c.cutFrom)>> ELSE <<>>

cutToArgs(c) ==
  IF isCuttingEnd(c.cutTo, c.videoDuration)
  THEN <<"-t", ToFixed5(c.cutTo - c.cutFrom)>> ELSE <<>>

HasStreams(sel) == Len(sel.streamIds) > 0

copyStreamIdsFiltered(c) == SelectSeq(c.copyStreamIds, HasStreams)

inputArgs(c) ==
  flatMap(copyStreamIdsFiltered(c),
          [sel \in Range(copyStreamIdsFiltered(c)) |-> <<"-i", sel.path>>])

inputCutArgsAllAfter(ssBeforeInput, fromArgs, inArgs, toArgs) ==
  inArgs \o fromArgs \o toArgs
    \o (IF ssBeforeInput THEN <<"-avoid_negative_ts", "make_zero">> ELSE <<>>)

inputCutArgs(ssBeforeInput, fromArgs, inArgs, toArgs) ==
  IF ssBeforeInput
  THEN fromArgs \o inArgs \o toArgs \o <<"-avoid_negative_ts", "make_zero">>
  ELSE inArgs \o fromArgs \o toArgs

\* rotation is <<>> when undefined and <<degrees>> when given
rotationArgs(c) ==
  IF c.rotation # <<>>
  THEN <<"-metadata:s:v:0", "rotate=" \o ToString(c.rotation[1])>> ELSE <<>>

\* the -map arguments of the selection at 1-based position k of the filtered
\* list; lodash passes the 0-based position as fileIndex
MapsOf(filtered, k) ==
  flatMap(filtered[k].streamIds,
          [streamId \in Range(filtered[k].streamIds) |->
             <<"-map", ToString(k - 1) \o ":" \o ToString(streamId)>>])

RECURSIVE MapArgsFrom(_, _)
MapArgsFrom(filtered, k) ==
  IF k > Len(filtered) THEN <<>>
  ELSE MapsOf(filtered, k) \o MapArgsFrom(filtered, k + 1)

\* the -map arguments numbered by the position in the list as passed in
mapArgsUnfiltered(c) == MapArgsFrom(c.copyStreamIds, 1)

mapArgs(c) == MapArgsFrom(copyStreamIdsFiltered(c), 1)

\* the ffmpegArgs of cut()
ffmpegArgsOf(c) ==
  inputCutArgs(c.keyframeCut, cutFromArgs(c), inputArgs(c), cutToArgs(c))
    \o <<"-c", "copy">>
    \o mapArgs(c)
    \o <<"-map_metadata", "0", "-movflags", "use_metadata_tags", "-ignore_unknown">>
    \o rotationArgs(c)
    \o <<"-f", c.outFormat, "-y", c.outPath>>


\* ------------------------------------------------- multi-segment coordinator
\* no value yet (no fraction reported, nothing passed to onProgress)
NoProgress == <<>>

\* path.extname, on the source paths of the model
extname(path) ==
  CASE path = "/v/in.mp4" -> ".mp4"
    [] path = "/v/in.mkv" -> ".mkv"
    [] OTHER -> ""

\* util.formatDuration({ seconds, fileNameFriendly: true }), for 0..9 seconds
formatDuration(seconds) == "00.00.0" \o ToString(seconds) \o ".000"

\* util.getOutPath(customOutDir, filePath, nameSuffix)
getOutPath(customOutDir, filePath, nameSuffix) ==
  customOutDir \o filePath \o "-" \o nameSuffix

\* the outPath cutMultiple gives the cut of segment seg
outPathOf(p, seg) ==
  LET ext == IF p.isOutFormatUserSelected
             THEN "." \o getExtensionForFormat(p.outFormat)
             ELSE extname(p.filePath)
      cutSpecification ==
        formatDuration(seg.cutFrom) \o "-" \o formatDuration(seg.cutTo)
  IN getOutPath(p.customOutDir, p.filePath, cutSpecification \o ext)

\* the arguments cutMultiple passes to cut() for segment seg
cutArgsOf(p, seg) ==
  [filePath |-> p.filePath, outFormat |-> p.outFormat,
   cutFrom |-> seg.cutFrom, cutTo |-> seg.cutTo,
   videoDuration |-> p.videoDuration, rotation |-> p.rotation,
   copyStreamIds |-> p.copyStreamIds, keyframeCut |-> p.keyframeCut,
   outPath |-> outPathOf(p, seg)]

\* moment.duration("HH:MM:SS").asSeconds() of the time field <<h, m, s>>
asSeconds(str) == str[1] * 3600 + str[2] * 60 + str[3]

\* handleProgress: the fraction a matching line reports
progressOfLine(line, cutDuration) == Rat(asSeconds(line.time), cutDuration)

RECURSIVE SumOver(_, _)
SumOver(f, S) ==
  IF S = {} THEN Zero
  ELSE LET x == CHOOSE y \in S : TRUE
       IN RatAdd(f[x], SumOver(f, S \ {x}))

\* lodash sum(Object.values(obj))
sumValues(obj) == SumOver(obj, DOMAIN obj)

\* singleProgresses[id] = singleProgress
storeProgress(obj, id, singleProgress) ==
  [j \in DOMAIN obj \cup {id} |-> IF j = id THEN singleProgress ELSE obj[j]]

aggregateOverEntries(obj, n) == RatDivInt(sumValues(obj), Cardinality(DOMAIN obj))

\* sum(Object.values(singleProgresses)) / segments.length
aggregate(obj, n) == RatDivInt(sumValues(obj), n)

afterCutCalledNoAwait == [pc |-> "loop", i |-> i + 1]

\* `await cut(...)`: the loop stands still until the cut settles
afterCutCalled == [pc |-> "awaitCut", i |-> i]

afterCutRejectedSwallowed == [pc |-> "loop", i |-> i + 1]

\* a rejected cut rejects cutMultiple: nothing in the loop catches it
afterCutRejected == [pc |-> "threw", i |-> i]

transferAfterProcessAlways(exitedOk) == "running"

\* `await process; await transferTimestamps(...)`: a rejected process ends
\* cut() before transferTimestamps is called
transferAfterProcess(exitedOk) == IF exitedOk THEN "running" ELSE "none"

tryCatchMissing(thrown) == IF thrown THEN "raised" ELSE "ok"

\* the try/catch around the line handler's body: what is thrown inside,
\* by the conversion or by the callback, is caught and logged
tryCatch(thrown) == IF thrown THEN "caught" ELSE "ok"

\* onSingleProgress(id, singleProgress), called by segment k's cut
OnSingleProgress(k, id, singleProgress) ==
  /\ singleProgresses' = storeProgress(singleProgresses, id, singleProgress)
  /\ lastProgress' = aggregate(singleProgresses', Len(segments))
  /\ reported' = [reported EXCEPT ![k] = singleProgress]
  /\ lastStore' = <<k, id>>

\* a segment of the batch: 0 <= cutFrom < cutTo <= MaxTime
SegmentSet ==
  {seg \in [cutFrom : 0..MaxTime, cutTo : 0..MaxTime] : seg.cutFrom < seg.cutTo}

SeqsUpTo(S, n) == UNION {[1..m -> S] : m \in 0..n}

Selection0 == <<[path |-> "/v/in.mp4", streamIds |-> <<0, 1>>]>>

BatchParams ==
  {[filePath |-> "/v/in.mp4", customOutDir |-> "/out", outFormat |-> "mp4",
    isOutFormatUserSelected |-> FALSE, videoDuration |-> MaxTime,
    rotation |-> <<>>, copyStreamIds |-> Selection0, keyframeCut |-> TRUE],
   [filePath |-> "/v/in.mp4", customOutDir |-> "/out", outFormat |-> "matroska",
    isOutFormatUserSelected |-> TRUE, videoDuration |-> MaxTime,
    rotation |-> <<90>>, copyStreamIds |-> Selection0, keyframeCut |-> FALSE]}

Platforms == {"linux", "freebsd"}

\* a line of stderr: whether the pattern matches it, whether the matched
\* time field converts (a conversion that throws is caught), and the field
ProgressLines ==
  {[match |-> FALSE, parses |-> FALSE, time |-> <<0, 0, 0>>],
   [match |-> TRUE, parses |-> FALSE, time |-> <<0, 0, 0>>]} \cup
  {[match |-> TRUE, parses |-> TRUE, time |-> <<0, 0, e>>] : e \in 0..MaxElapsed}

Ids == 0..(Len(segments) - 1)

\* the parts of the state a specification does not use stand still
PlanIdle == cutIn = <<>> /\ ffmpegArgs = <<>>
FrameIdle == frames = <<>> /\ cutTime = 0 /\ resolved = <<>>
MergeIdle ==
  /\ mergeIn = <<>> /\ mergeOs = "linux" /\ mergePc = "idle"
  /\ mergeProc = "none" /\ mergeRun = <<>> /\ trashed = <<>>
FormatIdle == probeIn = <<>> /\ formatOut = <<>>
CoordIdle ==
  /\ params = <<>> /\ segmentsUnsorted = <<>> /\ platform = "linux"
  /\ segments = <<>> /\ singleProgresses = <<>> /\ outFiles = <<>>
  /\ i = 0 /\ pc = "idle" /\ proc = <<>> /\ transfer = <<>>
  /\ reported = <<>> /\ lastProgress = <<>> /\ ffmpegCommandLog = <<>>
  /\ cutOrder = <<>> /\ lastStore = <<>> /\ lineOutcome = "none"

Init ==
  /\ params \in BatchParams
  /\ platform \in Platforms
  /\ segmentsUnsorted \in SeqsUpTo(SegmentSet, MaxSegments)
  /\ segments = SortByCutFrom(segmentsUnsorted)
  /\ singleProgresses = <<>>
  /\ outFiles = <<>>
  /\ i = 0
  /\ pc = "loop"
  /\ proc = [k \in 0..(Len(segmentsUnsorted) - 1) |-> "none"]
  /\ transfer = [k \in 0..(Len(segmentsUnsorted) - 1) |-> "none"]
  /\ reported = [k \in 0..(Len(segmentsUnsorted) - 1) |-> NoProgress]
  /\ lastProgress = NoProgress
  /\ ffmpegCommandLog = <<>>
  /\ cutOrder = <<>>
  /\ lastStore = <<>>
  /\ lineOutcome = [threw |-> "nothing", ended |-> "ok"]
  /\ PlanIdle
  /\ FrameIdle
  /\ MergeIdle
  /\ FormatIdle

\* cut() up to its call of onProgress(0): it builds its command, appends it
\* to the log and reports 0 through the callback cutMultiple gave it
CutBegins ==
  /\ pc = "loop"
  /\ i < Len(segments)
  /\ LET c == cutArgsOf(params, segments[i + 1])
     IN ffmpegCommandLog' =
          Append(ffmpegCommandLog, getFfCommandLine("ffmpeg", ffmpegArgsOf(c)))
  /\ cutOrder' = Append(cutOrder, segments[i + 1])
  /\ OnSingleProgress(i, i, Zero)

\* One loop iteration up to cut()'s first suspension, `await getPath(...)`,
\* the caller's progress callback having returned
StartCut ==
  /\ CutBegins
  /\ pc' = "getPath"
  /\ UNCHANGED <<params, segmentsUnsorted, platform, segments, outFiles, i,
                 proc, transfer, lineOutcome>>
  /\ UNCHANGED <<planVars, frameVars, mergeVars, formatVars>>

\* The same when the caller's progress callback throws on the 0: onProgress(0)
\* stands outside any try, so cut() rejects before a process is started
StartCutCallbackThrows ==
  /\ CutBegins
  /\ pc' = afterCutRejected.pc
  /\ i' = afterCutRejected.i
  /\ UNCHANGED <<params, segmentsUnsorted, platform, segments, outFiles,
                 proc, transfer, lineOutcome>>
  /\ UNCHANGED <<planVars, frameVars, mergeVars, formatVars>>

\* getPath resolves: execa spawns the process and handleProgress attaches
\* its line handler; the loop stands at `await cut(...)`
SpawnProcess ==
  /\ pc = "getPath"
  /\ ~getPathThrows(platform)
  /\ proc' = [proc EXCEPT ![i] = "running"]
  /\ pc' = afterCutCalled.pc
  /\ i' = afterCutCalled.i
  /\ UNCHANGED <<params, segmentsUnsorted, platform, segments, singleProgresses,
                 outFiles, transfer, reported, lastProgress, ffmpegCommandLog,
                 cutOrder, lastStore, lineOutcome>>
  /\ UNCHANGED <<planVars, frameVars, mergeVars, formatVars>>

\* getPath throws on a platform it does not know: no process is started
StartCutNoBinary ==
  /\ pc = "getPath"
  /\ getPathThrows(platform)
  /\ pc' = afterCutRejected.pc
  /\ i' = afterCutRejected.i
  /\ UNCHANGED <<params, segmentsUnsorted, platform, segments, singleProgresses,
                 outFiles, proc, transfer, reported, lastProgress,
                 ffmpegCommandLog, cutOrder, lastStore, lineOutcome>>
  /\ UNCHANGED <<planVars, frameVars, mergeVars, formatVars>>

\* The body of handleProgress's line handler for a line of segment k's
\* process.  A line the pattern does not match is ignored.  The callback
\* cut() was given is `progress => onSingleProgress(i, progress)`: it reads
\* the loop's counter when it is called, stores the fraction and hands the
\* aggregate to the caller's callback, which may throw (cbThrows).
HandleLine(k, line, cbThrows) ==
  /\ IF line.match /\ line.parses
     THEN OnSingleProgress(k, i,
            progressOfLine(line, segments[k + 1].cutTo - segments[k + 1].cutFrom))
     ELSE UNCHANGED <<singleProgresses, lastProgress, reported, lastStore>>
  /\ LET threw == IF ~line.match THEN "nothing"
                  ELSE IF ~line.parses THEN "conversion"
                  ELSE IF cbThrows THEN "callback" ELSE "nothing"
     IN lineOutcome' = [threw |-> threw, ended |-> tryCatch(threw # "nothing")]

\* a line of segment k's running process (readline hands over the lines of
\* process.stderr while the process runs)
ProgressLine(k, line, cbThrows) ==
  /\ proc[k] = "running"
  /\ HandleLine(k, line, cbThrows)
  /\ UNCHANGED <<params, segmentsUnsorted, platform, segments, outFiles, i, pc,
                 proc, transfer, ffmpegCommandLog, cutOrder>>
  /\ UNCHANGED <<planVars, frameVars, mergeVars, formatVars>>

\* a line of segment k's process handed over after the process has settled:
\* the line handler is never detached
LateProgressLine(k, line, cbThrows) ==
  /\ proc[k] \in {"exited", "failed"}
  /\ HandleLine(k, line, cbThrows)
  /\ UNCHANGED <<params, segmentsUnsorted, platform, segments, outFiles, i, pc,
                 proc, transfer, ffmpegCommandLog, cutOrder>>
  /\ UNCHANGED <<planVars, frameVars, mergeVars, formatVars>>

\* segment k's process exits with code 0: cut() goes on to transferTimestamps
ProcessExits(k) ==
  /\ proc[k] = "running"
  /\ proc' = [proc EXCEPT ![k] = "exited"]
  /\ transfer' = [transfer EXCEPT ![k] = transferAfterProcess(TRUE)]
  /\ UNCHANGED <<params, segmentsUnsorted, platform, segments, singleProgresses,
                 outFiles, i, pc, reported, lastProgress, ffmpegCommandLog,
                 cutOrder, lastStore, lineOutcome>>
  /\ UNCHANGED <<planVars, frameVars, mergeVars, formatVars>>

\* what the loop does when the cut of segment k settles
Resume(k, then) ==
  IF pc = "awaitCut" /\ k = i
  THEN pc' = then.pc /\ i' = then.i
  ELSE UNCHANGED <<pc, i>>

\* segment k's process fails (non-zero exit, or it could not be spawned)
ProcessFails(k) ==
  /\ proc[k] = "running"
  /\ proc' = [proc EXCEPT ![k] = "failed"]
  /\ transfer' = [transfer EXCEPT ![k] = transferAfterProcess(FALSE)]
  /\ Resume(k, afterCutRejected)
  /\ UNCHANGED <<params, segmentsUnsorted, platform, segments, singleProgresses,
                 outFiles, reported, lastProgress, ffmpegCommandLog,
                 cutOrder, lastStore, lineOutcome>>
  /\ UNCHANGED <<planVars, frameVars, mergeVars, formatVars>>

\* transferTimestamps resolves: cut() resolves, the loop pushes outPath and
\* counts on
TransferDone(k) ==
  /\ transfer[k] = "running"
  /\ transfer' = [transfer EXCEPT ![k] = "done"]
  /\ Resume(k, [pc |-> "loop", i |-> i + 1])
  /\ outFiles' = IF pc = "awaitCut" /\ k = i
                 THEN Append(outFiles, outPathOf(params, segments[i + 1]))
                 ELSE outFiles
  /\ UNCHANGED <<params, segmentsUnsorted, platform, segments, singleProgresses,
                 proc, reported, lastProgress, ffmpegCommandLog,
                 cutOrder, lastStore, lineOutcome>>
  /\ UNCHANGED <<planVars, frameVars, mergeVars, formatVars>>

\* transferTimestamps rejects
TransferFails(k) ==
  /\ transfer[k] = "running"
  /\ transfer' = [transfer EXCEPT ![k] = "failed"]
  /\ Resume(k, afterCutRejected)
  /\ UNCHANGED <<params, segmentsUnsorted, platform, segments, singleProgresses,
                 outFiles, proc, reported, lastProgress, ffmpegCommandLog,
                 cutOrder, lastStore, lineOutcome>>
  /\ UNCHANGED <<planVars, frameVars, mergeVars, formatVars>>

\* the loop is over: return outFiles
Return ==
  /\ pc = "loop"
  /\ i >= Len(segments)
  /\ pc' = "returned"
  /\ UNCHANGED <<params, segmentsUnsorted, platform, segments, singleProgresses,
                 outFiles, i, proc, transfer, reported, lastProgress,
                 ffmpegCommandLog, cutOrder, lastStore, lineOutcome>>
  /\ UNCHANGED <<planVars, frameVars, mergeVars, formatVars>>

Next ==
  \/ StartCut
  \/ StartCutCallbackThrows
  \/ SpawnProcess
  \/ StartCutNoBinary
  \/ \E k \in Ids, line \in ProgressLines, cbThrows \in BOOLEAN :
       ProgressLine(k, line, cbThrows)
  \/ \E k \in Ids : ProcessExits(k)
  \/ \E k \in Ids : ProcessFails(k)
  \/ \E k \in Ids : TransferDone(k)
  \/ \E k \in Ids : TransferFails(k)
  \/ Return

Spec == Init /\ [][Next]_vars

\* The batch when the runtime may also hand over lines of a process that has
\* already settled
NextLate ==
  \/ Next
  \/ \E k \in Ids, line \in ProgressLines, cbThrows \in BOOLEAN :
       LateProgressLine(k, line, cbThrows)

SpecLate == Init /\ [][NextLate]_vars

\* ----------------------------------------------- claims on the coordinator
\* segment k's cut is in flight: its process runs or its timestamps are
\* being transferred
InFlight(k) == proc[k] = "running" \/ transfer[k] = "running"

\* segment k's cut failed, in the process or in the timestamp transfer
Failed(k) == proc[k] = "failed" \/ transfer[k] = "failed"

\* the fraction segment k's cut reported last, 0 when it has reported none
LatestOf(k) == IF reported[k] = NoProgress THEN Zero ELSE reported[k]

\* the mean over all segments of the fraction each reported last
MeanReported == RatDivInt(SumOver([k \in Ids |-> LatestOf(k)], Ids), Len(segments))

\* C1: segment cuts run strictly one after the other.  A segment's process
\* has been started only if every earlier segment's process has exited and
\* its timestamp transfer has completed, and at most one cut (process or
\* timestamp transfer) is in flight at any time.
C1_CutsAreSequential ==
  /\ \A j \in Ids, k \in Ids :
       (j < k /\ proc[k] # "none") => (proc[j] = "exited" /\ transfer[j] = "done")
  /\ Cardinality({k \in Ids : InFlight(k)}) <= 1

\* C1 witness: the second segment's process runs, after the first cut is done
C1_Witness ==
  /\ Len(segments) = 2
  /\ transfer[0] = "done"
  /\ proc[1] = "running"

\* C2: once the cut of a segment has failed, in its process or in its
\* timestamp transfer, cutMultiple has ended in an error (it has not
\* returned and never will) and no later segment's process was or is started.
C2_FailureAbortsBatch ==
  \A k \in Ids :
    Failed(k) => (pc = "threw" /\ \A j \in Ids : j > k => proc[j] = "none")

\* C2 witness: the first of two cuts failed in its timestamp transfer
C2_Witness ==
  /\ Len(segments) = 2
  /\ transfer[0] = "failed"
  /\ pc = "threw"

\* C3: every value passed to the caller's progress callback is the sum over
\* all N segments of the fraction that segment reported last (0 for a
\* segment that has not reported) divided by N.
C3_AggregateIsMean ==
  lastProgress # NoProgress => lastProgress = MeanReported

\* C3 witness: of two segments the first reported 1/2 last and the second 1,
\* and the caller was given 3/4
C3_Witness ==
  /\ Len(segments) = 2
  /\ reported[0] = Rat(1, 2)
  /\ reported[1] = One
  /\ lastProgress = Rat(3, 4)

\* C4 (as claimed): an emitted aggregate is 1 exactly when the fraction every
\* segment reported last is 1.
C4_OneIffAllOne ==
  lastProgress # NoProgress =>
    (lastProgress = One <=> \A k \in Ids : reported[k] = One)

\* C5 (as claimed): every fraction stored in the batch progress map and every
\* aggregate passed to the caller lies in [0, 1].
C5_ProgressInUnitInterval ==
  /\ \A id \in DOMAIN singleProgresses :
       RatLeq(Zero, singleProgresses[id]) /\ RatLeq(singleProgresses[id], One)
  /\ lastProgress # NoProgress =>
       (RatLeq(Zero, lastProgress) /\ RatLeq(lastProgress, One))

\* the cut of segment k has resolved: the loop has pushed its outPath
CutResolved(k) == Len(outFiles) > k

\* the cut of segment k has rejected, which rejects cutMultiple at segment k
CutRejected(k) == pc = "threw" /\ i = k

\* C14: the line handler raises no error to its caller, whatever the line and
\* even when the callback it invokes throws; and the cut of a segment whose
\* process was started resolves exactly when the process has exited
\* successfully and the timestamp transfer is done, and rejects exactly when
\* the process or the timestamp transfer has failed.
C14_ParsingNeverAborts ==
  /\ lineOutcome.ended # "raised"
  /\ \A k \in Ids : proc[k] # "none" =>
       /\ CutResolved(k) <=> (proc[k] = "exited" /\ transfer[k] = "done")
       /\ CutRejected(k) <=> Failed(k)

\* C14 witness: the callback threw on the last line of the only segment's
\* process, after the fraction 1/2 was stored, and the batch returned
C14_Witness ==
  /\ Len(segments) = 1
  /\ lineOutcome = [threw |-> "callback", ended |-> "caught"]
  /\ reported[0] = Rat(1, 2)
  /\ pc = "returned"
  /\ Len(outFiles) = 1

\* s is in non-decreasing order of cutFrom
NonDecreasing(s) ==
  \A a \in 1..Len(s), b \in 1..Len(s) : a < b => s[a].cutFrom <= s[b].cutFrom

\* s and t hold the same elements the same number of times
IsPermutation(s, t) ==
  /\ Len(s) = Len(t)
  /\ \A x \in Range(s) \cup Range(t) :
       Cardinality(IndexesOf(s, x)) = Cardinality(IndexesOf(t, x))

\* C12: cut() is called for the segments in non-decreasing order of cutFrom,
\* whatever the order they were passed in, and a batch that returns has been
\* through every segment passed in and returns one output path per segment,
\* in that processing order.
C12_SortedProcessing ==
  /\ NonDecreasing(cutOrder)
  /\ pc = "returned" =>
       /\ IsPermutation(cutOrder, segmentsUnsorted)
       /\ outFiles = [j \in 1..Len(cutOrder) |-> outPathOf(params, cutOrder[j])]

\* C12 witness: the segments were passed in as [{1,2}, {0,1}] and the batch
\* returned the path of {0,1} first
C12_Witness ==
  /\ segmentsUnsorted = <<[cutFrom |-> 1, cutTo |-> 2], [cutFrom |-> 0, cutTo |-> 1]>>
  /\ pc = "returned"
  /\ cutOrder = <<[cutFrom |-> 0, cutTo |-> 1], [cutFrom |-> 1, cutTo |-> 2]>>
  /\ Len(outFiles) = 2
  /\ outFiles[1] = outPathOf(params, [cutFrom |-> 0, cutTo |-> 1])

\* C18: within the cut of a segment, the process has been started only after
\* the command line was appended to the log and the callback invoked with
\* 0 (while cut() waits for the binary's path both are done and no process
\* exists); a fraction other than that 0 has been reported only after the
\* process was started; transferTimestamps has been invoked only after the
\* process exited successfully, and never for a process that failed.
C18_OrderWithinCut ==
  /\ pc = "getPath" =>
       /\ proc[i] = "none"
       /\ Len(ffmpegCommandLog) = i + 1
       /\ reported[i] = Zero
  /\ \A k \in Ids :
       /\ proc[k] # "none" =>
            (Len(ffmpegCommandLog) > k /\ reported[k] # NoProgress)
       /\ reported[k] \notin {NoProgress, Zero} => proc[k] # "none"
       /\ transfer[k] # "none" => proc[k] = "exited"
       /\ proc[k] = "failed" => transfer[k] = "none"

\* C18 witness: the second cut reported a fraction from its running process
\* after the first cut went through process and timestamp transfer
C18_Witness ==
  /\ Len(segments) = 2
  /\ proc[0] = "exited" /\ transfer[0] = "done"
  /\ Len(ffmpegCommandLog) = 2
  /\ proc[1] = "running"
  /\ reported[1] = Rat(1, 2)

\* C19 (as claimed): every progress report that comes from segment k's
\* process is stored under entry k of the batch progress map and under no
\* other entry, also when the line arrives after the process has settled and
\* the loop's counter has moved on.
C19_ReportsKeepTheirEntry ==
  lastStore # <<>> => lastStore[2] = lastStore[1]

\* ------------------------------------------------- the planner on its own
\* the stream ids selected from one file, in selection order
StreamIdLists == {<<>>, <<0>>, <<1>>, <<0, 1>>, <<1, 0>>}

\* the p-th source file
SourcePath(p) == "/v/in" \o ToString(p) \o ".mp4"

\* copyStreamIds: one selection per source file, up to MaxFiles files
SelectionLists ==
  UNION {{[p \in 1..m |-> [path |-> SourcePath(p), streamIds |-> ids[p]]] :
            ids \in [1..m -> StreamIdLists]} : m \in 0..MaxFiles}

CutInputs ==
  [filePath : {SourcePath(1)}, outFormat : {"mp4"},
   cutFrom : 0..MaxTime, cutTo : 0..MaxTime, videoDuration : 1..MaxTime,
   rotation : {<<>>, <<90>>}, copyStreamIds : SelectionLists,
   keyframeCut : BOOLEAN, outPath : {"/out/cut.mp4"}]

InitCut ==
  /\ cutIn \in CutInputs
  /\ ffmpegArgs = <<>>
  /\ CoordIdle
  /\ FrameIdle
  /\ MergeIdle
  /\ FormatIdle

\* cut() builds its argument vector
PlanCut ==
  /\ ffmpegArgs = <<>>
  /\ ffmpegArgs' = ffmpegArgsOf(cutIn)
  /\ UNCHANGED <<cutIn, coordVars, frameVars, mergeVars, formatVars>>

NextCut == PlanCut

SpecCut == InitCut /\ [][NextCut]_vars

\* ---------------------------------------------------- claims on the planner
Planned == ffmpegArgs # <<>>
SsAt == IndexesOf(ffmpegArgs, "-ss")
TAt == IndexesOf(ffmpegArgs, "-t")
InputAt == IndexesOf(ffmpegArgs, "-i")

\* the directive -avoid_negative_ts make_zero is in the command
HasMakeZero ==
  \E j \in 1..(Len(ffmpegArgs) - 1) :
    ffmpegArgs[j] = "-avoid_negative_ts" /\ ffmpegArgs[j + 1] = "make_zero"

\* C9 (as amended): in keyframe-cut mode the start trim -ss stands before
\* every -i, the end trim -t stands after every -i, and the directive
\* -avoid_negative_ts make_zero is present; otherwise both trims stand after
\* every -i and the directive is absent.
C9_TrimPlacement ==
  Planned =>
    IF cutIn.keyframeCut
    THEN /\ \A a \in SsAt, b \in InputAt : a < b
         /\ \A a \in TAt, b \in InputAt : a > b
         /\ HasMakeZero
    ELSE /\ \A a \in SsAt \cup TAt, b \in InputAt : a > b
         /\ ~HasMakeZero

\* C9 witness: a keyframe-mode command with both trims and two inputs
C9_Witness ==
  /\ Planned
  /\ cutIn.keyframeCut
  /\ SsAt # {} /\ TAt # {}
  /\ Cardinality(InputAt) = 2

\* C9 (as claimed): in keyframe-cut mode every trim argument, -ss and -t,
\* stands before every -i and the directive is present; otherwise every trim
\* argument stands after every -i and the directive is absent.
C9_AllTrimsBeforeInputs ==
  Planned =>
    IF cutIn.keyframeCut
    THEN /\ \A a \in SsAt \cup TAt, b \in InputAt : a < b
         /\ HasMakeZero
    ELSE /\ \A a \in SsAt \cup TAt, b \in InputAt : a > b
         /\ ~HasMakeZero

\* C10: the command holds the start trim -ss exactly when cutFrom > 0 and the
\* end trim -t exactly when cutTo < videoDuration, in either mode.
C10_TrimsOnlyWhenCutting ==
  Planned =>
    /\ (SsAt # {}) <=> (cutIn.cutFrom > 0)
    /\ (TAt # {}) <=> (cutIn.cutTo < cutIn.videoDuration)

\* C10 witness: a cut from 0 to the source's end is planned with no trim
C10_Witness ==
  /\ Planned
  /\ cutIn.cutFrom = 0
  /\ cutIn.cutTo = cutIn.videoDuration
  /\ SsAt = {} /\ TAt = {}

\* the values that follow each occurrence of flag in args, left to right
RECURSIVE ValuesAfter(_, _)
ValuesAfter(args, flag) ==
  IF Len(args) < 2 THEN <<>>
  ELSE IF args[1] = flag
       THEN <<args[2]>> \o ValuesAfter(SubSeq(args, 3, Len(args)), flag)
       ELSE ValuesAfter(Tail(args), flag)

EmittedInputs == ValuesAfter(ffmpegArgs, "-i")
EmittedMaps == ValuesAfter(ffmpegArgs, "-map")

\* the paths of the selections that select at least one stream, in order
RECURSIVE PathsSelecting(_)
PathsSelecting(sels) ==
  IF sels = <<>> THEN <<>>
  ELSE (IF Head(sels).streamIds = <<>> THEN <<>> ELSE <<Head(sels).path>>)
         \o PathsSelecting(Tail(sels))

\* the zero-based position of path among the emitted inputs
InputIndexOf(path) ==
  (CHOOSE j \in 1..Len(EmittedInputs) : EmittedInputs[j] = path) - 1

\* one '<fileIndex>:<streamId>' per selected stream, in selection order
RECURSIVE MapsExpected(_)
MapsExpected(sels) ==
  IF sels = <<>> THEN <<>>
  ELSE [j \in 1..Len(Head(sels).streamIds) |->
          ToString(InputIndexOf(Head(sels).path)) \o ":"
            \o ToString(Head(sels).streamIds[j])]
         \o MapsExpected(Tail(sels))

\* C11: the command holds one -i pair per selection with a non-empty stream-id
\* list, in the order given, and one -map '<fileIndex>:<streamId>' per
\* selected stream, in selection order, fileIndex being the zero-based
\* position among the emitted inputs of the stream's source file; a
\* selection with no stream ids contributes no input and no map argument.
C11_InputsAndMapsAgree ==
  Planned =>
    /\ EmittedInputs = PathsSelecting(cutIn.copyStreamIds)
    /\ EmittedMaps = MapsExpected(cutIn.copyStreamIds)

\* C11 witness: the first selection is empty and the second selects two
\* streams, which are mapped from input 0
C11_Witness ==
  /\ Planned
  /\ Len(cutIn.copyStreamIds) = 2
  /\ cutIn.copyStreamIds[1].streamIds = <<>>
  /\ cutIn.copyStreamIds[2].streamIds = <<1, 0>>
  /\ EmittedInputs = <<cutIn.copyStreamIds[2].path>>
  /\ EmittedMaps = <<"0:1", "0:0">>

\* ------------------------------------------------------- keyframe resolver
\* const sigma = 0.01, in ticks of 1/400 s
sigma == 4

isCloseTo(time1, time2) == Abs(time1 - time2) < sigma

\* arr[idx], idx counted from 0 as in the source
At(arr, idx) == arr[idx + 1]

Min(S) == CHOOSE x \in S : \A y \in S : x <= y

\* Array.prototype.findIndex: the first index whose element satisfies cb, or -1
\* cb is a function on the elements of arr
findIndex(arr, cb) ==
  LET hits == {idx \in 0..(Len(arr) - 1) : cb[At(arr, idx)]}
  IN IF hits = {} THEN -1 ELSE Min(hits)

\* [...arr].reverse()
reverse(arr) == [j \in 1..Len(arr) |-> arr[Len(arr) + 1 - j]]

\* the index in the reversed copy, not turned back into one of arr
findReverseIndexUnflipped(arr, cb) == findIndex(reverse(arr), cb)

findReverseIndex(arr, cb) ==
  LET ret == findIndex(reverse(arr), cb)
  IN IF ret = -1 THEN -1 ELSE Len(arr) - 1 - ret

\* what a call does: it throws, returns undefined, or returns a time
Throws(msg) == [kind |-> "throw", time |-> 0, error |-> msg]
ReturnsUndefined == [kind |-> "undefined", time |-> 0, error |-> ""]
ReturnsTime(t) == [kind |-> "time", time |-> t, error |-> ""]

\* direction next without the test for the last frame
getNextKeyframeLastAllowed(frms, cutT) ==
  LET index == findIndex(frms, [f \in Range(frms) |->
                                 f.keyframe /\ f.time >= cutT - sigma])
  IN IF index = -1 THEN Throws("Failed to find next keyframe")
     ELSE IF isCloseTo(At(frms, index).time, cutT) THEN ReturnsUndefined
     ELSE ReturnsTime(At(frms, index).time)

getNextKeyframe(frms, cutT) ==
  LET index == findIndex(frms, [f \in Range(frms) |->
                                 f.keyframe /\ f.time >= cutT - sigma])
  IN IF index = -1 THEN Throws("Failed to find next keyframe")
     ELSE IF index >= Len(frms) - 1 THEN Throws("We are on the last frame")
     ELSE IF isCloseTo(At(frms, index).time, cutT) THEN ReturnsUndefined
     ELSE ReturnsTime(At(frms, index).time)

getPrevKeyframe(frms, cutT) ==
  LET index == findReverseIndex(frms, [f \in Range(frms) |->
                                        f.time <= cutT + sigma])
      kindex == findReverseIndex(frms, [f \in Range(frms) |->
                                         f.keyframe /\ f.time <= cutT + sigma])
  IN IF index = -1 THEN Throws("Failed to find any prev frame")
     ELSE IF index = 0 THEN Throws("We are on the first frame")
     ELSE IF index = Len(frms) - 1 THEN ReturnsUndefined
     ELSE IF At(frms, index + 1).keyframe THEN ReturnsUndefined
     ELSE IF kindex = -1 THEN Throws("Failed to find any prev keyframe")
     ELSE IF kindex = 0 THEN Throws("We are on the first keyframe")
     ELSE ReturnsTime(At(frms, kindex - 1).time)

getNextPrevKeyframe(frms, cutT, nextMode) ==
  IF Len(frms) < 2 THEN Throws("Less than 2 frames found")
  ELSE IF nextMode THEN getNextKeyframe(frms, cutT)
  ELSE getPrevKeyframe(frms, cutT)

\* readFrames returns its packets sorted by time, ascending
SortedByTime(frms) ==
  \A a \in 1..Len(frms), b \in 1..Len(frms) : a < b => frms[a].time <= frms[b].time

FrameSet == [keyframe : BOOLEAN, time : 0..MaxFrameTime]

Timelines == {frms \in SeqsUpTo(FrameSet, MaxFrames) : SortedByTime(frms)}

InitKeyframe ==
  /\ frames \in Timelines
  /\ cutTime \in 0..MaxFrameTime
  /\ resolved = <<>>
  /\ CoordIdle
  /\ PlanIdle
  /\ MergeIdle
  /\ FormatIdle

\* getNextPrevKeyframe(frames, cutTime, true)
ResolveNext ==
  /\ resolved = <<>>
  /\ resolved' = [nextMode |-> TRUE,
                  result |-> getNextPrevKeyframe(frames, cutTime, TRUE)]
  /\ UNCHANGED <<frames, cutTime, coordVars, planVars, mergeVars, formatVars>>

\* getNextPrevKeyframe(frames, cutTime, false)
ResolvePrev ==
  /\ resolved = <<>>
  /\ resolved' = [nextMode |-> FALSE,
                  result |-> getNextPrevKeyframe(frames, cutTime, FALSE)]
  /\ UNCHANGED <<frames, cutTime, coordVars, planVars, mergeVars, formatVars>>

NextKeyframe == ResolveNext \/ ResolvePrev

SpecKeyframe == InitKeyframe /\ [][NextKeyframe]_vars

\* ----------------------------------------------------- claims on the resolver
ResolvedNext == resolved # <<>> /\ resolved.nextMode
ResolvedPrev == resolved # <<>> /\ ~resolved.nextMode

\* C6 (as claimed): on a timeline of at least 2 frames, direction next never
\* returns a time earlier than cutTime.
C6_NextNeverEarlier ==
  (ResolvedNext /\ Len(frames) >= 2 /\ resolved.result.kind = "time")
    => resolved.result.time >= cutTime

\* C7 (as claimed): direction prev never returns a time later than cutTime.
C7_PrevNeverLater ==
  (ResolvedPrev /\ resolved.result.kind = "time")
    => resolved.result.time <= cutTime

\* frame idx is a keyframe that is not the last frame and lies within sigma
\* of cutTime: a valid start boundary the cut point coincides with
OnStartBoundary(idx) ==
  /\ idx < Len(frames) - 1
  /\ At(frames, idx).keyframe
  /\ isCloseTo(At(frames, idx).time, cutTime)

\* frame idx is not the first frame, lies within sigma of cutTime and is the
\* last frame or stands right before a keyframe: a valid end boundary the
\* cut point coincides with
OnEndBoundary(idx) ==
  /\ idx > 0
  /\ isCloseTo(At(frames, idx).time, cutTime)
  /\ (idx = Len(frames) - 1 \/ At(frames, idx + 1).keyframe)

\* C8 (as claimed): when cutTime coincides, within sigma, with a valid
\* boundary of the direction, the resolver returns "unchanged" (undefined).
C8_UnchangedOnBoundary ==
  /\ (ResolvedNext /\ \E idx \in 0..(Len(frames) - 1) : OnStartBoundary(idx))
       => resolved.result.kind = "undefined"
  /\ (ResolvedPrev /\ \E idx \in 0..(Len(frames) - 1) : OnEndBoundary(idx))
       => resolved.result.kind = "undefined"

Max(S) == CHOOSE x \in S : \A y \in S : x >= y

FrameIds == 0..(Len(frames) - 1)

\* the keyframes at or after cutTime - sigma
KeyframesFrom == {idx \in FrameIds : At(frames, idx).keyframe
                                      /\ At(frames, idx).time >= cutTime - sigma}

\* the frames, and the keyframes, at or before cutTime + sigma
FramesUpTo == {idx \in FrameIds : At(frames, idx).time <= cutTime + sigma}
KeyframesUpTo == {idx \in FramesUpTo : At(frames, idx).keyframe}

\* frame idx is the last frame or stands right before a keyframe
ValidEnd(idx) == idx = Len(frames) - 1 \/ At(frames, idx + 1).keyframe

\* C16: an adjusted time of direction next is the time of the earliest
\* keyframe at or after cutTime - sigma.  An adjusted time of direction prev
\* is the time of the frame right before the latest keyframe at or before
\* cutTime + sigma: that frame is followed by a keyframe, and no frame after
\* it up to the last frame at or before cutTime + sigma is a valid end
\* boundary (the last frame, or a frame right before a keyframe).
C16_MinimalShift ==
  /\ (ResolvedNext /\ resolved.result.kind = "time") =>
       /\ KeyframesFrom # {}
       /\ resolved.result.time = At(frames, Min(KeyframesFrom)).time
  /\ (ResolvedPrev /\ resolved.result.kind = "time") =>
       /\ KeyframesUpTo # {}
       /\ Max(KeyframesUpTo) >= 1
       /\ resolved.result.time = At(frames, Max(KeyframesUpTo) - 1).time
       /\ ValidEnd(Max(KeyframesUpTo) - 1)
       /\ \A idx \in Max(KeyframesUpTo)..Max(FramesUpTo) : ~ValidEnd(idx)

\* C16 witness: direction prev stepped back over a keyframe and a frame
\* after it that are no end boundaries
C16_Witness ==
  /\ ResolvedPrev
  /\ resolved.result.kind = "time"
  /\ Len(frames) = 4
  /\ Max(FramesUpTo) = 2
  /\ Max(KeyframesUpTo) = 1
  /\ resolved.result.time = At(frames, 0).time

\* direction prev has to adjust: the last frame at or before cutTime + sigma
\* is neither the last frame nor right before a keyframe
NeedsAdjustment == FramesUpTo # {} /\ ~ValidEnd(Max(FramesUpTo))

\* the failure cases of direction next
NextFails == KeyframesFrom = {} \/ Min(KeyframesFrom) = Len(frames) - 1

\* the failure cases of direction prev the claim lists
PrevFailsAsClaimed ==
  \/ FramesUpTo = {}
  \/ Max(FramesUpTo) = 0
  \/ NeedsAdjustment /\ KeyframesUpTo # {} /\ Max(KeyframesUpTo) = 0

\* C17 (as amended): the resolver throws exactly when the timeline has fewer
\* than 2 frames; or, direction next, no keyframe lies at or after
\* cutTime - sigma or the first such keyframe is the last frame; or,
\* direction prev, no frame lies at or before cutTime + sigma, or the last
\* such frame is the first frame, or an adjustment is needed and no keyframe
\* lies at or before cutTime + sigma or the latest such keyframe is the
\* first frame.  In every other case it returns.
C17_FailsExactlyWhen ==
  resolved # <<>> =>
    (resolved.result.kind = "throw" <=>
       \/ Len(frames) < 2
       \/ resolved.nextMode /\ NextFails
       \/ ~resolved.nextMode /\ PrevFailsAsClaimed
       \/ ~resolved.nextMode /\ NeedsAdjustment /\ KeyframesUpTo = {})

\* C17 witness: direction prev has to adjust, finds no keyframe at or before
\* cutTime + sigma and throws
C17_Witness ==
  /\ ResolvedPrev
  /\ Len(frames) >= 2
  /\ NeedsAdjustment
  /\ Max(FramesUpTo) >= 1
  /\ KeyframesUpTo = {}
  /\ resolved.result = Throws("Failed to find any prev keyframe")

\* C17 (as claimed): the resolver throws exactly in the cases the claim
\* lists, which for an adjustment of direction prev name only a latest
\* keyframe that is the first frame.
C17_FailsAsClaimed ==
  resolved # <<>> =>
    (resolved.result.kind = "throw" <=>
       \/ Len(frames) < 2
       \/ resolved.nextMode /\ NextFails
       \/ ~resolved.nextMode /\ PrevFailsAsClaimed)

\* ------------------------------------------------------- autoMergeSegments
\* { concurrency: 5 }
trashConcurrency == 5

\* the p-th segment file
SegmentPath(p) == "/out/seg" \o ToString(p) \o ".mp4"

\* Date.prototype.getTime(), as the text of the number
NowText(now) == ToString(now)

\* the ffmpegArgs of mergeFiles
mergeArgsOf(outPath, allStreams) ==
  <<"-f", "concat", "-safe", "0", "-protocol_whitelist", "file,pipe", "-i", "-",
    "-c", "copy">>
    \o (IF allStreams THEN <<"-map", "0">> ELSE <<>>)
    \o <<"-map_metadata", "0", "-ignore_unknown", "-y", outPath>>

\* concatTxt, line by line (no path of the model holds a quote)
concatTxt(paths) == [j \in 1..Len(paths) |-> "file '" \o paths[j] \o "'"]

\* the outPath autoMergeSegments gives mergeFiles
mergeOutPath(m) ==
  getOutPath(m.customOutDir, m.sourceFile,
             "cut-merged-" \o NowText(m.now) \o extname(m.sourceFile))

afterMergeCalledNoAwait == "trash"

\* `await mergeFiles(...)`: autoMergeSegments stands still until it settles
afterMergeCalled == "awaitMerge"

MergeInputs ==
  UNION {[customOutDir : {"/out"}, sourceFile : {"/v/in.mp4"},
          segmentPaths : {[p \in 1..n |-> SegmentPath(p)]}, now : 0..1] :
           n \in 0..MaxPaths}

PathIds == 1..Len(mergeIn.segmentPaths)

InitMerge ==
  /\ mergeIn \in MergeInputs
  /\ mergeOs \in Platforms
  /\ mergePc = "start"
  /\ mergeProc = "none"
  /\ mergeRun = <<>>
  /\ trashed = [j \in 1..Len(mergeIn.segmentPaths) |-> "none"]
  /\ CoordIdle
  /\ PlanIdle
  /\ FrameIdle
  /\ FormatIdle

\* autoMergeSegments calls mergeFiles, which builds its arguments and the
\* concat list and suspends at `await getPath(...)`
MergeCalled ==
  /\ mergePc = "start"
  /\ mergeProc' = "getPath"
  /\ mergePc' = afterMergeCalled
  /\ UNCHANGED <<mergeIn, mergeOs, mergeRun, trashed>>
  /\ UNCHANGED <<coordVars, planVars, frameVars, formatVars>>

\* what autoMergeSegments does when mergeFiles settles
MergeSettles(then) ==
  IF mergePc = "awaitMerge" THEN mergePc' = then ELSE UNCHANGED mergePc

\* getPath resolves: the process is spawned and the concat list piped to it
MergeSpawn ==
  /\ mergeProc = "getPath"
  /\ ~getPathThrows(mergeOs)
  /\ mergeProc' = "running"
  /\ mergeRun' = [args |-> mergeArgsOf(mergeOutPath(mergeIn), FALSE),
                  stdin |-> concatTxt(mergeIn.segmentPaths)]
  /\ UNCHANGED <<mergeIn, mergeOs, mergePc, trashed>>
  /\ UNCHANGED <<coordVars, planVars, frameVars, formatVars>>

\* getPath throws: mergeFiles rejects without a process
MergeNoBinary ==
  /\ mergeProc = "getPath"
  /\ getPathThrows(mergeOs)
  /\ mergeProc' = "failed"
  /\ MergeSettles("threw")
  /\ UNCHANGED <<mergeIn, mergeOs, mergeRun, trashed>>
  /\ UNCHANGED <<coordVars, planVars, frameVars, formatVars>>

\* the merge process exits with code 0: mergeFiles resolves and
\* autoMergeSegments goes on to pMap
MergeExits ==
  /\ mergeProc = "running"
  /\ mergeProc' = "exited"
  /\ MergeSettles("trash")
  /\ UNCHANGED <<mergeIn, mergeOs, mergeRun, trashed>>
  /\ UNCHANGED <<coordVars, planVars, frameVars, formatVars>>

\* the merge process fails: mergeFiles rejects, and so does autoMergeSegments
MergeFails ==
  /\ mergeProc = "running"
  /\ mergeProc' = "failed"
  /\ MergeSettles("threw")
  /\ UNCHANGED <<mergeIn, mergeOs, mergeRun, trashed>>
  /\ UNCHANGED <<coordVars, planVars, frameVars, formatVars>>

TrashRunning == {j \in PathIds : trashed[j] = "running"}

\* pMap starts trash() on the next path, in order, while fewer than
\* `concurrency` calls are pending and none has rejected
TrashStarts(j) ==
  /\ mergePc = "trash"
  /\ trashed[j] = "none"
  /\ \A h \in PathIds : h < j => trashed[h] # "none"
  /\ Cardinality(TrashRunning) < trashConcurrency
  /\ trashed' = [trashed EXCEPT ![j] = "running"]
  /\ UNCHANGED <<mergeIn, mergeOs, mergePc, mergeProc, mergeRun>>
  /\ UNCHANGED <<coordVars, planVars, frameVars, formatVars>>

\* a trash() call resolves
TrashDone(j) ==
  /\ trashed[j] = "running"
  /\ trashed' = [trashed EXCEPT ![j] = "done"]
  /\ UNCHANGED <<mergeIn, mergeOs, mergePc, mergeProc, mergeRun>>
  /\ UNCHANGED <<coordVars, planVars, frameVars, formatVars>>

\* a trash() call rejects: pMap rejects and starts no further call
TrashFails(j) ==
  /\ trashed[j] = "running"
  /\ trashed' = [trashed EXCEPT ![j] = "failed"]
  /\ mergePc' = IF mergePc = "trash" THEN "threw" ELSE mergePc
  /\ UNCHANGED <<mergeIn, mergeOs, mergeProc, mergeRun>>
  /\ UNCHANGED <<coordVars, planVars, frameVars, formatVars>>

\* every path is in the trash: pMap resolves and autoMergeSegments returns
MergeReturns ==
  /\ mergePc = "trash"
  /\ \A j \in PathIds : trashed[j] = "done"
  /\ mergePc' = "returned"
  /\ UNCHANGED <<mergeIn, mergeOs, mergeProc, mergeRun, trashed>>
  /\ UNCHANGED <<coordVars, planVars, frameVars, formatVars>>

NextMerge ==
  \/ MergeCalled
  \/ MergeSpawn
  \/ MergeNoBinary
  \/ MergeExits
  \/ MergeFails
  \/ \E j \in PathIds : TrashStarts(j)
  \/ \E j \in PathIds : TrashDone(j)
  \/ \E j \in PathIds : TrashFails(j)
  \/ MergeReturns

SpecMerge == InitMerge /\ [][NextMerge]_vars

\* -------------------------------------------------------- claims on the merge
\* C13: no trash() call on a segment file has begun unless the merge process
\* has exited successfully; in particular, when the merge failed (in its
\* process or before it was spawned) no segment file is or was being trashed.
C13_TrashOnlyAfterMerge ==
  \A j \in PathIds : trashed[j] # "none" => mergeProc = "exited"

\* C13 witness: after the merge exited, the first file is in the trash and
\* the second is being moved there
C13_Witness ==
  /\ Len(mergeIn.segmentPaths) >= 2
  /\ mergeProc = "exited"
  /\ trashed[1] = "done"
  /\ trashed[2] = "running"

\* --------------------------------------------------------------- getFormat
\* the JavaScript value undefined, where a string is expected
undefined == "(undefined)"

\* String.prototype.split(','): a string is modelled by the sequence of its
\* comma-separated fields, the empty string '' by the one empty field <<"">>.
\* (formatsStr || '') turns a missing format_name into ''.
splitFormats(formatName) ==
  IF formatName.defined THEN formatName.fields ELSE <<"">>

mapFormat(requestedFormat) ==
  CASE requestedFormat = "m4a" -> "ipod"
    [] requestedFormat = "aac" -> "ipod"
    [] OTHER -> requestedFormat

determineOutputFormatFirst(ffprobeFormats, ft) ==
  IF ffprobeFormats[1] # "" THEN ffprobeFormats[1] ELSE undefined

\* ft.ext is undefined when fileType recognised nothing (ft = {})
determineOutputFormat(ffprobeFormats, ft) ==
  IF ft.ext # undefined /\ ft.ext \in Range(ffprobeFormats) THEN ft.ext
  ELSE IF ffprobeFormats[1] # "" THEN ffprobeFormats[1] ELSE undefined

\* what ffprobe reports for QuickTime-family files
MovFamily == <<"mov", "mp4", "m4a", "3gp", "3g2", "mj2">>

FormatNames == {"mov", "mp4", "m4a", "aac", "matroska", "webm"}

\* format_name: missing, empty, or a list of candidates
FormatNameValues ==
  {[defined |-> FALSE, fields |-> <<"">>], [defined |-> TRUE, fields |-> <<"">>]}
    \cup {[defined |-> TRUE, fields |-> f] :
            f \in {MovFamily} \cup UNION {[1..n -> FormatNames] : n \in 1..MaxCandidates}}

\* the ext fileType finds in the leading bytes, undefined when it finds none
ContentTypes == {undefined, "mp4", "mov", "m4a", "aac", "mkv", "webm"}

InitFormat ==
  /\ probeIn \in [formatName : FormatNameValues, ft : [ext : ContentTypes]]
  /\ formatOut = <<>>
  /\ CoordIdle
  /\ PlanIdle
  /\ FrameIdle
  /\ MergeIdle

\* getFormat, ffprobe and readChunk having succeeded
GetFormat ==
  /\ formatOut = <<>>
  /\ LET formats == splitFormats(probeIn.formatName)
         assumedFormat == determineOutputFormat(formats, probeIn.ft)
     IN formatOut' = [kind |-> "returned", value |-> mapFormat(assumedFormat)]
  /\ UNCHANGED <<probeIn, coordVars, planVars, frameVars, mergeVars>>

\* getFormat when ffprobe or the read of the leading bytes fails
GetFormatRejects ==
  /\ formatOut = <<>>
  /\ formatOut' = [kind |-> "threw", value |-> undefined]
  /\ UNCHANGED <<probeIn, coordVars, planVars, frameVars, mergeVars>>

NextFormat == GetFormat \/ GetFormatRejects

SpecFormat == InitFormat /\ [][NextFormat]_vars

\* ------------------------------------------------------ claims on getFormat
\* the candidates ffprobe reported, none for a missing or empty format_name
Candidates ==
  IF probeIn.formatName.defined /\ probeIn.formatName.fields # <<"">>
  THEN probeIn.formatName.fields ELSE <<>>

FormatReturned == formatOut # <<>> /\ formatOut.kind = "returned"

\* the candidate the claim picks, before the remapping
Picked ==
  IF \E j \in 1..Len(Candidates) : Candidates[j] = probeIn.ft.ext
  THEN probeIn.ft.ext ELSE Candidates[1]

\* C15: getFormat returns the probed candidate equal to the content type of
\* the magic bytes when that is among the candidates, else the first probed
\* candidate, with m4a and aac remapped to ipod and every other identifier
\* unchanged; for the candidates mov,mp4,m4a,3gp,3g2,mj2 it returns mp4 when
\* the magic bytes say mp4 and mov when they are unrecognised; it never
\* returns m4a or aac.
C15_FormatChoice ==
  FormatReturned =>
    /\ formatOut.value \notin {"m4a", "aac"}
    /\ Candidates # <<>> =>
         /\ formatOut.value = (IF Picked \in {"m4a", "aac"} THEN "ipod" ELSE Picked)
         /\ (Candidates = MovFamily /\ probeIn.ft.ext = "mp4") => formatOut.value = "mp4"
         /\ (Candidates = MovFamily /\ probeIn.ft.ext = undefined) => formatOut.value = "mov"

\* C15 witness: of the candidates aac,mov the magic bytes pick none and the
\* first is returned as ipod
C15_Witness ==
  /\ FormatReturned
  /\ Candidates = <<"aac", "mov">>
  /\ probeIn.ft.ext = "mkv"
  /\ formatOut.value = "ipod"

==========================================================================
